---- MODULE Spec2Model ----
(***************************************************************************)
(* The LumePay escrow program (apps/contracts): one escrow account, its    *)
(* stored Escrow record and the five instruction handlers of Processor.    *)
(*                                                                         *)
(* The account's data is a buffer of slots, one slot per field of the      *)
(* Borsh encoding of Escrow (field granularity instead of byte             *)
(* granularity).  Public keys, listing ids and signatures are small        *)
(* numbers; 0 is the all-zero value of a freshly allocated account.        *)
(* Signed 64-bit time stamps are scaled down to TimeBits bits.             *)
(***************************************************************************)
EXTENDS Integers, Sequences, FiniteSets, TLC

VARIABLES data, now, inits, held, outs, last, probe, escrow_is_pda

vars == <<data, now, inits, held, outs, last, probe, escrow_is_pda>>

(***************************************************************************)
(* Bounds                                                                  *)
(***************************************************************************)
MaxTime == 2
MaxInits == 2
TimeBits == 4

(***************************************************************************)
(* Scaled i64                                                              *)
(***************************************************************************)
I64_MAX == 2^(TimeBits - 1) - 1
I64_MIN == -(2^(TimeBits - 1))

WrapI64(x) == ((x - I64_MIN) % 2^TimeBits) + I64_MIN

Overflows(x) == x > I64_MAX \/ x < I64_MIN

(***************************************************************************)
(* Keys and other opaque values                                            *)
(***************************************************************************)
ZERO_KEY == 0
ALICE == 1
BOB == 2
SELLER_TOKEN == 11
BUYER_TOKEN == 12
ESCROW_TOKEN == 13
ESCROW_ACCOUNT == 20
TOKEN_PROGRAM_ID == 21
CLOCK_ID == 22
RENT_ID == 23
SYSTEM_PROGRAM_ID == 24

Keys == {ZERO_KEY, ALICE, BOB}
Programs == {TOKEN_PROGRAM_ID, SYSTEM_PROGRAM_ID}
Sysvars == {CLOCK_ID, RENT_ID}
Proofs == {1, 2}
Reasons == {41}
Times == 0 .. MaxTime
Windows == {1, I64_MAX}

\* The (seller, buyer, amount, listing_id) combinations Initialize is called with.
Deals ==
  { [seller |-> ALICE, buyer |-> BOB, amount |-> 5, listing_id |-> 31],
    [seller |-> BOB, buyer |-> ALICE, amount |-> 7, listing_id |-> 32] }

(***************************************************************************)
(* state.rs: EscrowState, Escrow and its Borsh encoding                    *)
(***************************************************************************)
EscrowState ==
  <<"Uninitialized", "Created", "Funded", "Released", "Refunded", "Disputed", "Closed">>

StateTag(s) == CHOOSE i \in 0 .. 6 : EscrowState[i + 1] = s

ESCROW_FIELDS == 13

Escrow(init, seller, buyer, stoken, btoken, etoken, amount, state, created, release, window, listing, sig) ==
  [ is_initialized |-> init,
    seller_pubkey |-> seller,
    buyer_pubkey |-> buyer,
    seller_token_account |-> stoken,
    buyer_token_account |-> btoken,
    escrow_token_account |-> etoken,
    amount |-> amount,
    state |-> state,
    creation_timestamp |-> created,
    release_timestamp |-> release,
    dispute_time_window |-> window,
    listing_id |-> listing,
    transaction_signature |-> sig ]

\* BorshSerialize for Escrow: the fields in declaration order, a bool as 0/1,
\* the enum as its variant index.
Serialize(e) ==
  << IF e.is_initialized THEN 1 ELSE 0,
     e.seller_pubkey,
     e.buyer_pubkey,
     e.seller_token_account,
     e.buyer_token_account,
     e.escrow_token_account,
     e.amount,
     StateTag(e.state),
     e.creation_timestamp,
     e.release_timestamp,
     e.dispute_time_window,
     e.listing_id,
     e.transaction_signature >>

\* Escrow::try_from_slice succeeds only on a buffer that holds exactly one
\* record: every field present, a valid bool and variant index, nothing left over.
CanDecode(buf) ==
  /\ Len(buf) = ESCROW_FIELDS
  /\ buf[1] \in {0, 1}
  /\ buf[8] \in 0 .. 6

try_from_slice(buf) ==
  Escrow(buf[1] = 1, buf[2], buf[3], buf[4], buf[5], buf[6], buf[7],
         EscrowState[buf[8] + 1], buf[9], buf[10], buf[11], buf[12], buf[13])

\* serialize(&mut *data.borrow_mut()): writes the fields into the front of the
\* buffer; a buffer that is too short keeps the fields that fitted.
WriteFits(buf) == Len(buf) >= ESCROW_FIELDS

WriteInto(buf, e) ==
  [i \in 1 .. Len(buf) |-> IF i <= ESCROW_FIELDS THEN Serialize(e)[i] ELSE buf[i]]

is_initialized(e) == e.is_initialized

(***************************************************************************)
(* state.rs: the transition predicates                                     *)
(***************************************************************************)
\* Mutant: a disputed escrow can be released at any time.
can_release_any_time(e, current_timestamp) ==
  CASE e.state = "Funded" -> TRUE
    [] e.state = "Disputed" -> TRUE
    [] OTHER -> FALSE

can_release(e, current_timestamp) ==
  CASE e.state = "Funded" -> TRUE
    [] e.state = "Disputed" -> current_timestamp >= e.release_timestamp
    [] OTHER -> FALSE

\* Mutant: a disputed escrow can be refunded only after the release time.
can_refund_strict(e, current_timestamp) ==
  CASE e.state = "Funded" -> TRUE
    [] e.state = "Disputed" -> current_timestamp > e.release_timestamp
    [] OTHER -> FALSE

can_refund(e, current_timestamp) ==
  CASE e.state = "Funded" -> TRUE
    [] e.state = "Disputed" -> current_timestamp >= e.release_timestamp
    [] OTHER -> FALSE

\* creation_timestamp + dispute_time_window is an i64 addition: it wraps in a
\* build without overflow checks and panics in a build with them.
DisputeDeadline(e) == WrapI64(e.creation_timestamp + e.dispute_time_window)

DisputeOverflows(e) ==
  e.state = "Funded" /\ Overflows(e.creation_timestamp + e.dispute_time_window)

\* Mutant: a funded escrow can be disputed at any time.
can_dispute_no_window(e, current_timestamp) ==
  CASE e.state = "Funded" -> TRUE
    [] OTHER -> FALSE

can_dispute(e, current_timestamp) ==
  CASE e.state = "Funded" -> current_timestamp < DisputeDeadline(e)
    [] OTHER -> FALSE

(***************************************************************************)
(* processor.rs: results of a handler                                      *)
(***************************************************************************)
NoXfer == [from |-> 0, to |-> 0, authority |-> 0, amount |-> 0, seeds |-> <<>>]

\* return Err(e): nothing was invoked, the buffer is as it was read.
Fail(e, buf) == [err |-> e, data |-> buf, xfer |-> NoXfer, done |-> FALSE]

\* spl_token::instruction::transfer(token_program, source, destination, authority, [], amount)
Transfer(source, destination, authority, amount, seeds) ==
  [from |-> source, to |-> destination, authority |-> authority, amount |-> amount,
   seeds |-> seeds]

\* The signer seeds of the escrow account.
escrow_seed(e) == <<"escrow", e.seller_pubkey, e.buyer_pubkey, e.listing_id, 0>>

\* The address the runtime derives from signer seeds.  The address of the escrow
\* account is either the address derived from the seeds of the first deal
\* (escrow_is_pda) or the public key of a key pair; the seeds of any other deal
\* derive another address.
OTHER_ADDRESS == 25

create_program_address(seeds) ==
  IF escrow_is_pda /\ seeds = <<"escrow", ALICE, BOB, 31, 0>>
    THEN ESCROW_ACCOUNT ELSE OTHER_ADDRESS

\* invoke_signed(&transfer, .., &[seeds]): the transfer names its authority as a
\* signer; the runtime lets it through when the authority signed the
\* transaction or is the address derived from the seeds; then the token program
\* accepts or rejects the transfer.
invoke_signed(xfer, invoke_ok, authority_signer) ==
  invoke_ok /\ (authority_signer \/ xfer.authority = create_program_address(xfer.seeds))

\* The last statements of a handler: serialize the record into the account.
Persist(buf, e, xfer, moved) ==
  [err |-> IF WriteFits(buf) THEN "Ok" ELSE "BorshIoError",
   data |-> WriteInto(buf, e), xfer |-> xfer, done |-> moved]

INIT_ACCOUNTS == 8
FUND_ACCOUNTS == 5
RELEASE_ACCOUNTS == 6
REFUND_ACCOUNTS == 6
DISPUTE_ACCOUNTS == 3

(***************************************************************************)
(* processor.rs: process_initialize                                        *)
(* accounts = <<seller, escrow_account, seller_token_account, buyer,       *)
(*              buyer_token_account, escrow_token_account, rent, system>>  *)
(***************************************************************************)
\* Mutant: a release time equal to the current time is accepted.
process_initialize_allow_equal(buf, clock, accounts, seller_signer, buyer_signer, rent_exempt, amount, release_timestamp, dispute_time_window, listing_id) ==
  IF Len(accounts) < INIT_ACCOUNTS THEN Fail("NotEnoughAccountKeys", buf)
  ELSE IF ~seller_signer THEN Fail("Unauthorized", buf)
  ELSE IF ~buyer_signer THEN Fail("Unauthorized", buf)
  ELSE IF accounts[7] # RENT_ID THEN Fail("InvalidArgument", buf)
  ELSE IF ~rent_exempt THEN Fail("NotRentExempt", buf)
  ELSE IF release_timestamp < clock THEN Fail("ReleaseTimeNotReached", buf)
  ELSE Persist(buf,
               Escrow(TRUE, accounts[1], accounts[4], accounts[3], accounts[5],
                      accounts[6], amount, "Created", clock, release_timestamp,
                      dispute_time_window, listing_id, 0),
               NoXfer, FALSE)

process_initialize(buf, clock, accounts, seller_signer, buyer_signer, rent_exempt, amount, release_timestamp, dispute_time_window, listing_id) ==
  IF Len(accounts) < INIT_ACCOUNTS THEN Fail("NotEnoughAccountKeys", buf)
  ELSE IF ~seller_signer THEN Fail("Unauthorized", buf)
  ELSE IF ~buyer_signer THEN Fail("Unauthorized", buf)
  ELSE IF accounts[7] # RENT_ID THEN Fail("InvalidArgument", buf)
  ELSE IF ~rent_exempt THEN Fail("NotRentExempt", buf)
  ELSE IF release_timestamp <= clock THEN Fail("ReleaseTimeNotReached", buf)
  ELSE Persist(buf,
               Escrow(TRUE, accounts[1], accounts[4], accounts[3], accounts[5],
                      accounts[6], amount, "Created", clock, release_timestamp,
                      dispute_time_window, listing_id, 0),
               NoXfer, FALSE)

(***************************************************************************)
(* processor.rs: process_fund                                              *)
(* accounts = <<buyer, escrow_account, buyer_token_account,                *)
(*              escrow_token_account, token_program>>                      *)
(***************************************************************************)
\* Mutant: the state of the record is not tested.
process_fund_any_state(buf, accounts, buyer_signer, transaction_signature, invoke_ok) ==
  IF Len(accounts) < FUND_ACCOUNTS THEN Fail("NotEnoughAccountKeys", buf)
  ELSE IF ~buyer_signer THEN Fail("Unauthorized", buf)
  ELSE IF ~CanDecode(buf) THEN Fail("BorshIoError", buf)
  ELSE LET escrow_data == try_from_slice(buf)
           xfer == Transfer(accounts[3], accounts[4], accounts[1], escrow_data.amount, <<>>)
       IN IF escrow_data.buyer_pubkey # accounts[1] THEN Fail("Unauthorized", buf)
          ELSE IF escrow_data.buyer_token_account # accounts[3]
            THEN Fail("InvalidTokenAccount", buf)
          ELSE IF escrow_data.escrow_token_account # accounts[4]
            THEN Fail("InvalidTokenAccount", buf)
          ELSE IF accounts[5] # TOKEN_PROGRAM_ID THEN Fail("IncorrectProgramId", buf)
          ELSE IF ~invoke_ok
            THEN [err |-> "TransferFailed", data |-> buf, xfer |-> xfer, done |-> FALSE]
          ELSE Persist(buf,
                       [escrow_data EXCEPT !.state = "Funded",
                                           !.transaction_signature = transaction_signature],
                       xfer, TRUE)

\* Mutant: the transfer is invoked before the token accounts are compared.
process_fund_transfer_first(buf, accounts, buyer_signer, transaction_signature, invoke_ok) ==
  IF Len(accounts) < FUND_ACCOUNTS THEN Fail("NotEnoughAccountKeys", buf)
  ELSE IF ~buyer_signer THEN Fail("Unauthorized", buf)
  ELSE IF ~CanDecode(buf) THEN Fail("BorshIoError", buf)
  ELSE LET escrow_data == try_from_slice(buf)
           xfer == Transfer(accounts[3], accounts[4], accounts[1], escrow_data.amount, <<>>)
       IN IF escrow_data.state # "Created" THEN Fail("InvalidEscrowState", buf)
          ELSE IF escrow_data.buyer_pubkey # accounts[1] THEN Fail("Unauthorized", buf)
          ELSE IF accounts[5] # TOKEN_PROGRAM_ID THEN Fail("IncorrectProgramId", buf)
          ELSE IF ~invoke_ok
            THEN [err |-> "TransferFailed", data |-> buf, xfer |-> xfer, done |-> FALSE]
          ELSE IF escrow_data.buyer_token_account # accounts[3]
            THEN [err |-> "InvalidTokenAccount", data |-> buf, xfer |-> xfer, done |-> FALSE]
          ELSE IF escrow_data.escrow_token_account # accounts[4]
            THEN [err |-> "InvalidTokenAccount", data |-> buf, xfer |-> xfer, done |-> FALSE]
          ELSE Persist(buf,
                       [escrow_data EXCEPT !.state = "Funded",
                                           !.transaction_signature = transaction_signature],
                       xfer, TRUE)

process_fund(buf, accounts, buyer_signer, transaction_signature, invoke_ok) ==
  IF Len(accounts) < FUND_ACCOUNTS THEN Fail("NotEnoughAccountKeys", buf)
  ELSE IF ~buyer_signer THEN Fail("Unauthorized", buf)
  ELSE IF ~CanDecode(buf) THEN Fail("BorshIoError", buf)
  ELSE LET escrow_data == try_from_slice(buf)
           xfer == Transfer(accounts[3], accounts[4], accounts[1], escrow_data.amount, <<>>)
       IN IF escrow_data.state # "Created" THEN Fail("InvalidEscrowState", buf)
          ELSE IF escrow_data.buyer_pubkey # accounts[1] THEN Fail("Unauthorized", buf)
          ELSE IF escrow_data.buyer_token_account # accounts[3]
            THEN Fail("InvalidTokenAccount", buf)
          ELSE IF escrow_data.escrow_token_account # accounts[4]
            THEN Fail("InvalidTokenAccount", buf)
          ELSE IF accounts[5] # TOKEN_PROGRAM_ID THEN Fail("IncorrectProgramId", buf)
          ELSE IF ~invoke_ok
            THEN [err |-> "TransferFailed", data |-> buf, xfer |-> xfer, done |-> FALSE]
          ELSE Persist(buf,
                       [escrow_data EXCEPT !.state = "Funded",
                                           !.transaction_signature = transaction_signature],
                       xfer, TRUE)

(***************************************************************************)
(* processor.rs: process_release                                           *)
(* accounts = <<seller, escrow_account, escrow_token_account,              *)
(*              seller_token_account, token_program, clock>>               *)
(***************************************************************************)
\* Mutant: the record is written before the transfer is invoked.
process_release_write_first(buf, clock, accounts, seller_signer, escrow_signer, transaction_signature, invoke_ok) ==
  IF Len(accounts) < RELEASE_ACCOUNTS THEN Fail("NotEnoughAccountKeys", buf)
  ELSE IF ~seller_signer THEN Fail("Unauthorized", buf)
  ELSE IF ~CanDecode(buf) THEN Fail("BorshIoError", buf)
  ELSE LET escrow_data == try_from_slice(buf)
           xfer == Transfer(accounts[3], accounts[4], accounts[2], escrow_data.amount,
                            escrow_seed(escrow_data))
           written == Persist(buf,
                              [escrow_data EXCEPT !.state = "Released",
                                                  !.transaction_signature = transaction_signature],
                              xfer, TRUE)
       IN IF escrow_data.seller_pubkey # accounts[1] THEN Fail("Unauthorized", buf)
          ELSE IF accounts[6] # CLOCK_ID THEN Fail("InvalidArgument", buf)
          ELSE IF ~can_release(escrow_data, clock) THEN Fail("InvalidEscrowState", buf)
          ELSE IF escrow_data.seller_token_account # accounts[4]
            THEN Fail("InvalidTokenAccount", buf)
          ELSE IF escrow_data.escrow_token_account # accounts[3]
            THEN Fail("InvalidTokenAccount", buf)
          ELSE IF accounts[5] # TOKEN_PROGRAM_ID THEN Fail("IncorrectProgramId", buf)
          ELSE IF ~invoke_signed(xfer, invoke_ok, escrow_signer)
            THEN [err |-> "TransferFailed", data |-> written.data, xfer |-> xfer,
                  done |-> FALSE]
          ELSE written

process_release(buf, clock, accounts, seller_signer, escrow_signer, transaction_signature, invoke_ok) ==
  IF Len(accounts) < RELEASE_ACCOUNTS THEN Fail("NotEnoughAccountKeys", buf)
  ELSE IF ~seller_signer THEN Fail("Unauthorized", buf)
  ELSE IF ~CanDecode(buf) THEN Fail("BorshIoError", buf)
  ELSE LET escrow_data == try_from_slice(buf)
           xfer == Transfer(accounts[3], accounts[4], accounts[2], escrow_data.amount,
                            escrow_seed(escrow_data))
       IN IF escrow_data.seller_pubkey # accounts[1] THEN Fail("Unauthorized", buf)
          ELSE IF accounts[6] # CLOCK_ID THEN Fail("InvalidArgument", buf)
          ELSE IF ~can_release(escrow_data, clock) THEN Fail("InvalidEscrowState", buf)
          ELSE IF escrow_data.seller_token_account # accounts[4]
            THEN Fail("InvalidTokenAccount", buf)
          ELSE IF escrow_data.escrow_token_account # accounts[3]
            THEN Fail("InvalidTokenAccount", buf)
          ELSE IF accounts[5] # TOKEN_PROGRAM_ID THEN Fail("IncorrectProgramId", buf)
          ELSE IF ~invoke_signed(xfer, invoke_ok, escrow_signer)
            THEN [err |-> "TransferFailed", data |-> buf, xfer |-> xfer, done |-> FALSE]
          ELSE Persist(buf,
                       [escrow_data EXCEPT !.state = "Released",
                                           !.transaction_signature = transaction_signature],
                       xfer, TRUE)

(***************************************************************************)
(* processor.rs: process_refund                                            *)
(* accounts = <<seller, escrow_account, escrow_token_account,              *)
(*              buyer_token_account, token_program, clock>>                *)
(***************************************************************************)
\* Mutant: the token accounts are not compared with the stored ones.
process_refund_unbound(buf, clock, accounts, seller_signer, escrow_signer, transaction_signature, invoke_ok) ==
  IF Len(accounts) < REFUND_ACCOUNTS THEN Fail("NotEnoughAccountKeys", buf)
  ELSE IF ~seller_signer THEN Fail("Unauthorized", buf)
  ELSE IF ~CanDecode(buf) THEN Fail("BorshIoError", buf)
  ELSE LET escrow_data == try_from_slice(buf)
           xfer == Transfer(accounts[3], accounts[4], accounts[2], escrow_data.amount,
                            escrow_seed(escrow_data))
       IN IF escrow_data.seller_pubkey # accounts[1] THEN Fail("Unauthorized", buf)
          ELSE IF accounts[6] # CLOCK_ID THEN Fail("InvalidArgument", buf)
          ELSE IF ~can_refund(escrow_data, clock) THEN Fail("InvalidEscrowState", buf)
          ELSE IF accounts[5] # TOKEN_PROGRAM_ID THEN Fail("IncorrectProgramId", buf)
          ELSE IF ~invoke_signed(xfer, invoke_ok, escrow_signer)
            THEN [err |-> "TransferFailed", data |-> buf, xfer |-> xfer, done |-> FALSE]
          ELSE Persist(buf,
                       [escrow_data EXCEPT !.state = "Refunded",
                                           !.transaction_signature = transaction_signature],
                       xfer, TRUE)

\* Mutant: a refund closes the record.
process_refund_closes(buf, clock, accounts, seller_signer, escrow_signer, transaction_signature, invoke_ok) ==
  IF Len(accounts) < REFUND_ACCOUNTS THEN Fail("NotEnoughAccountKeys", buf)
  ELSE IF ~seller_signer THEN Fail("Unauthorized", buf)
  ELSE IF ~CanDecode(buf) THEN Fail("BorshIoError", buf)
  ELSE LET escrow_data == try_from_slice(buf)
           xfer == Transfer(accounts[3], accounts[4], accounts[2], escrow_data.amount,
                            escrow_seed(escrow_data))
       IN IF escrow_data.seller_pubkey # accounts[1] THEN Fail("Unauthorized", buf)
          ELSE IF accounts[6] # CLOCK_ID THEN Fail("InvalidArgument", buf)
          ELSE IF ~can_refund(escrow_data, clock) THEN Fail("InvalidEscrowState", buf)
          ELSE IF escrow_data.buyer_token_account # accounts[4]
            THEN Fail("InvalidTokenAccount", buf)
          ELSE IF escrow_data.escrow_token_account # accounts[3]
            THEN Fail("InvalidTokenAccount", buf)
          ELSE IF accounts[5] # TOKEN_PROGRAM_ID THEN Fail("IncorrectProgramId", buf)
          ELSE IF ~invoke_signed(xfer, invoke_ok, escrow_signer)
            THEN [err |-> "TransferFailed", data |-> buf, xfer |-> xfer, done |-> FALSE]
          ELSE Persist(buf,
                       [escrow_data EXCEPT !.state = "Closed",
                                           !.transaction_signature = transaction_signature],
                       xfer, TRUE)

process_refund(buf, clock, accounts, seller_signer, escrow_signer, transaction_signature, invoke_ok) ==
  IF Len(accounts) < REFUND_ACCOUNTS THEN Fail("NotEnoughAccountKeys", buf)
  ELSE IF ~seller_signer THEN Fail("Unauthorized", buf)
  ELSE IF ~CanDecode(buf) THEN Fail("BorshIoError", buf)
  ELSE LET escrow_data == try_from_slice(buf)
           xfer == Transfer(accounts[3], accounts[4], accounts[2], escrow_data.amount,
                            escrow_seed(escrow_data))
       IN IF escrow_data.seller_pubkey # accounts[1] THEN Fail("Unauthorized", buf)
          ELSE IF accounts[6] # CLOCK_ID THEN Fail("InvalidArgument", buf)
          ELSE IF ~can_refund(escrow_data, clock) THEN Fail("InvalidEscrowState", buf)
          ELSE IF escrow_data.buyer_token_account # accounts[4]
            THEN Fail("InvalidTokenAccount", buf)
          ELSE IF escrow_data.escrow_token_account # accounts[3]
            THEN Fail("InvalidTokenAccount", buf)
          ELSE IF accounts[5] # TOKEN_PROGRAM_ID THEN Fail("IncorrectProgramId", buf)
          ELSE IF ~invoke_signed(xfer, invoke_ok, escrow_signer)
            THEN [err |-> "TransferFailed", data |-> buf, xfer |-> xfer, done |-> FALSE]
          ELSE Persist(buf,
                       [escrow_data EXCEPT !.state = "Refunded",
                                           !.transaction_signature = transaction_signature],
                       xfer, TRUE)

(***************************************************************************)
(* processor.rs: process_dispute                                           *)
(* accounts = <<buyer, escrow_account, clock>>                             *)
(* overflow_checks: whether the build aborts on arithmetic overflow.       *)
(***************************************************************************)
\* Mutant: the caller is not compared with the stored buyer.
process_dispute_any_caller(buf, clock, accounts, buyer_signer, reason, overflow_checks) ==
  IF Len(accounts) < DISPUTE_ACCOUNTS THEN Fail("NotEnoughAccountKeys", buf)
  ELSE IF ~buyer_signer THEN Fail("Unauthorized", buf)
  ELSE IF ~CanDecode(buf) THEN Fail("BorshIoError", buf)
  ELSE LET escrow_data == try_from_slice(buf)
       IN IF accounts[3] # CLOCK_ID THEN Fail("InvalidArgument", buf)
          ELSE IF overflow_checks /\ DisputeOverflows(escrow_data) THEN Fail("Panic", buf)
          ELSE IF ~can_dispute(escrow_data, clock) THEN Fail("InvalidEscrowState", buf)
          ELSE Persist(buf, [escrow_data EXCEPT !.state = "Disputed"], NoXfer, FALSE)

\* Mutant: the reason is written into the record.
process_dispute_stores_reason(buf, clock, accounts, buyer_signer, reason, overflow_checks) ==
  IF Len(accounts) < DISPUTE_ACCOUNTS THEN Fail("NotEnoughAccountKeys", buf)
  ELSE IF ~buyer_signer THEN Fail("Unauthorized", buf)
  ELSE IF ~CanDecode(buf) THEN Fail("BorshIoError", buf)
  ELSE LET escrow_data == try_from_slice(buf)
       IN IF escrow_data.buyer_pubkey # accounts[1] THEN Fail("Unauthorized", buf)
          ELSE IF accounts[3] # CLOCK_ID THEN Fail("InvalidArgument", buf)
          ELSE IF overflow_checks /\ DisputeOverflows(escrow_data) THEN Fail("Panic", buf)
          ELSE IF ~can_dispute(escrow_data, clock) THEN Fail("InvalidEscrowState", buf)
          ELSE Persist(buf, [escrow_data EXCEPT !.state = "Disputed", !.transaction_signature = reason], NoXfer, FALSE)

process_dispute(buf, clock, accounts, buyer_signer, reason, overflow_checks) ==
  IF Len(accounts) < DISPUTE_ACCOUNTS THEN Fail("NotEnoughAccountKeys", buf)
  ELSE IF ~buyer_signer THEN Fail("Unauthorized", buf)
  ELSE IF ~CanDecode(buf) THEN Fail("BorshIoError", buf)
  ELSE LET escrow_data == try_from_slice(buf)
       IN IF escrow_data.buyer_pubkey # accounts[1] THEN Fail("Unauthorized", buf)
          ELSE IF accounts[3] # CLOCK_ID THEN Fail("InvalidArgument", buf)
          ELSE IF overflow_checks /\ DisputeOverflows(escrow_data) THEN Fail("Panic", buf)
          ELSE IF ~can_dispute(escrow_data, clock) THEN Fail("InvalidEscrowState", buf)
          ELSE Persist(buf, [escrow_data EXCEPT !.state = "Disputed"], NoXfer, FALSE)

(***************************************************************************)
(* The calls the environment makes.  Any key may call; besides that, a     *)
(* call deviates from the well-formed call of its instruction in at most   *)
(* one way: a wrong account in one position, a missing signature, or a     *)
(* token transfer that the token program rejects.  A call may also come    *)
(* with too few accounts.  The arguments vary over the well-formed calls;  *)
(* a flawed call carries the first value of each argument.                 *)
(***************************************************************************)
ShortList == <<>>

Wrong(accounts, expected) ==
  Cardinality({i \in 2 .. Len(accounts) : accounts[i] # expected[i]})

Flaw(b) == IF b THEN 0 ELSE 1

ReleaseTimes == 1 .. MaxTime

InitCalls ==
  { c \in [ accounts : {ShortList} \cup
                       { <<d.seller, ESCROW_ACCOUNT, SELLER_TOKEN, d.buyer, BUYER_TOKEN,
                           ESCROW_TOKEN, sv, SYSTEM_PROGRAM_ID>> : d \in Deals, sv \in Sysvars },
            seller_signer : BOOLEAN, buyer_signer : BOOLEAN, rent_exempt : BOOLEAN,
            release_timestamp : ReleaseTimes, dispute_time_window : Windows ] :
      IF c.accounts = ShortList
        THEN c.seller_signer /\ c.buyer_signer /\ c.rent_exempt
             /\ c.release_timestamp = 1 /\ c.dispute_time_window = 1
        ELSE LET flaws == Flaw(c.accounts[7] = RENT_ID) + Flaw(c.seller_signer)
                          + Flaw(c.buyer_signer) + Flaw(c.rent_exempt)
             IN \/ flaws = 0
                \/ flaws = 1 /\ c.release_timestamp = MaxTime /\ c.dispute_time_window = 1 }

MoveCalls(lists, expected) ==
  { c \in [ accounts : {ShortList} \cup lists, signer : BOOLEAN, proof : Proofs,
            invoke_ok : BOOLEAN ] :
      IF c.accounts = ShortList THEN c.signer /\ c.invoke_ok /\ c.proof = 1
      ELSE LET flaws == Wrong(c.accounts, expected) + Flaw(c.signer) + Flaw(c.invoke_ok)
           IN flaws = 0 \/ (flaws = 1 /\ c.proof = 1) }

FundCalls ==
  MoveCalls(Keys \X {ESCROW_ACCOUNT} \X {BUYER_TOKEN, SELLER_TOKEN}
              \X {ESCROW_TOKEN, BUYER_TOKEN} \X Programs,
            <<ZERO_KEY, ESCROW_ACCOUNT, BUYER_TOKEN, ESCROW_TOKEN, TOKEN_PROGRAM_ID>>)

\* Release and Refund calls: in a call signed by the caller with the expected
\* accounts the escrow account may have signed the transaction as well.
Extended(c, b) ==
  [accounts |-> c.accounts, signer |-> c.signer, proof |-> c.proof,
   invoke_ok |-> c.invoke_ok, escrow_signer |-> b]

WithEscrowSigner(calls, expected) ==
  { Extended(c, FALSE) : c \in calls } \cup
  { Extended(c, TRUE) :
      c \in { x \in calls : x.accounts # ShortList /\ x.signer
                            /\ Wrong(x.accounts, expected) = 0 } }

RELEASE_LIST ==
  <<ZERO_KEY, ESCROW_ACCOUNT, ESCROW_TOKEN, SELLER_TOKEN, TOKEN_PROGRAM_ID, CLOCK_ID>>

REFUND_LIST ==
  <<ZERO_KEY, ESCROW_ACCOUNT, ESCROW_TOKEN, BUYER_TOKEN, TOKEN_PROGRAM_ID, CLOCK_ID>>

ReleaseCalls ==
  WithEscrowSigner(
    MoveCalls(Keys \X {ESCROW_ACCOUNT} \X {ESCROW_TOKEN, SELLER_TOKEN}
                \X {SELLER_TOKEN, BUYER_TOKEN} \X Programs \X Sysvars,
              RELEASE_LIST),
    RELEASE_LIST)

RefundCalls ==
  WithEscrowSigner(
    MoveCalls(Keys \X {ESCROW_ACCOUNT} \X {ESCROW_TOKEN, BUYER_TOKEN}
                \X {BUYER_TOKEN, SELLER_TOKEN} \X Programs \X Sysvars,
              REFUND_LIST),
    REFUND_LIST)

DisputeCalls ==
  { c \in [ accounts : {ShortList} \cup (Keys \X {ESCROW_ACCOUNT} \X Sysvars),
            signer : BOOLEAN, reason : Reasons, overflow_checks : BOOLEAN ] :
      IF c.accounts = ShortList THEN c.signer /\ c.overflow_checks
      ELSE Flaw(c.accounts[3] = CLOCK_ID) + Flaw(c.signer) <= 1 }

DealOf(accounts) ==
  IF Len(accounts) = 0 THEN CHOOSE d \in Deals : TRUE
  ELSE CHOOSE d \in Deals : d.seller = accounts[1] /\ d.buyer = accounts[4]

\* The handlers applied to a call.  An address derived from seeds has no private
\* key: the escrow account can have signed the transaction only when its
\* address is a public key.
DoInitialize(buf, clock, c) ==
  process_initialize(buf, clock, c.accounts, c.seller_signer, c.buyer_signer, c.rent_exempt,
                     DealOf(c.accounts).amount, c.release_timestamp, c.dispute_time_window,
                     DealOf(c.accounts).listing_id)

DoFund(buf, c) == process_fund(buf, c.accounts, c.signer, c.proof, c.invoke_ok)

DoRelease(buf, clock, c) ==
  process_release(buf, clock, c.accounts, c.signer, c.escrow_signer /\ ~escrow_is_pda,
                  c.proof, c.invoke_ok)

DoRefund(buf, clock, c) ==
  process_refund(buf, clock, c.accounts, c.signer, c.escrow_signer /\ ~escrow_is_pda,
                 c.proof, c.invoke_ok)

DoDispute(buf, clock, c) ==
  process_dispute(buf, clock, c.accounts, c.signer, c.reason, c.overflow_checks)

(***************************************************************************)
(* The state machine                                                       *)
(***************************************************************************)
DataLens == {ESCROW_FIELDS - 1, ESCROW_FIELDS, ESCROW_FIELDS + 1}

Zeroed(n) == [i \in 1 .. n |-> 0]

\* last: the instruction that succeeded last, or "Rejected" when the last call
\* returned an error.
NoCall == "None"

NoProbe == [fn |-> "None", ret |-> FALSE]

Init ==
  /\ data \in {Zeroed(n) : n \in DataLens}
  /\ now = 0
  /\ inits = 0
  /\ held = 0
  /\ outs = 0
  /\ last = NoCall
  /\ probe = NoProbe
  /\ escrow_is_pda \in BOOLEAN

\* The effect of one processed instruction on the account and on the ledger.
Apply(op, r) ==
  /\ data' = r.data
  /\ last' = IF r.err = "Ok" THEN op ELSE "Rejected"
  /\ held' = IF ~r.done THEN held
             ELSE IF op = "Fund" THEN held + r.xfer.amount
             ELSE held - r.xfer.amount
  /\ outs' = IF r.done /\ op \in {"Release", "Refund"} THEN outs + 1 ELSE outs
  /\ inits' = IF op = "Initialize" /\ r.err = "Ok" THEN inits + 1 ELSE inits
  /\ UNCHANGED <<now, probe, escrow_is_pda>>

Initialize ==
  \E c \in InitCalls :
    LET r == DoInitialize(data, now, c)
    IN /\ r.err = "Ok" => inits < MaxInits
       /\ Apply("Initialize", r)

Fund == \E c \in FundCalls : Apply("Fund", DoFund(data, c))

Release == \E c \in ReleaseCalls : Apply("Release", DoRelease(data, now, c))

Refund == \E c \in RefundCalls : Apply("Refund", DoRefund(data, now, c))

Dispute == \E c \in DisputeCalls : Apply("Dispute", DoDispute(data, now, c))

\* The cluster clock advances.
Tick ==
  /\ now < MaxTime
  /\ now' = now + 1
  /\ UNCHANGED <<data, inits, held, outs, last, probe, escrow_is_pda>>

Next == Initialize \/ Fund \/ Release \/ Refund \/ Dispute \/ Tick

Spec == Init /\ [][Next]_vars

\* The seller settles: a Release or a Refund that passes every check and whose
\* transfer succeeds.
Settle ==
  \/ \E c \in ReleaseCalls :
       DoRelease(data, now, c).err = "Ok" /\ Apply("Release", DoRelease(data, now, c))
  \/ \E c \in RefundCalls :
       DoRefund(data, now, c).err = "Ok" /\ Apply("Refund", DoRefund(data, now, c))

\* The clock keeps advancing, and the seller keeps calling Release or Refund
\* with the stored accounts until a transfer succeeds.
LiveSpec == Init /\ [][Next]_vars /\ WF_vars(Tick) /\ WF_vars(Settle)

(***************************************************************************)
(* The transition predicates on their own: any record, any clock value     *)
(***************************************************************************)
PredWindows == -1 .. 2

PredInit ==
  /\ data \in { Serialize(Escrow(TRUE, ALICE, BOB, SELLER_TOKEN, BUYER_TOKEN, ESCROW_TOKEN,
                                 5, EscrowState[s], created, release, window, 31, 0)) :
                  s \in 1 .. 7, created \in Times, release \in Times, window \in PredWindows }
  /\ now \in Times
  /\ inits = 0
  /\ held = 0
  /\ outs = 0
  /\ last = NoCall
  /\ probe = NoProbe
  /\ escrow_is_pda = TRUE

Probe(fn, ret) ==
  /\ probe' = [fn |-> fn, ret |-> ret]
  /\ UNCHANGED <<data, now, inits, held, outs, last, escrow_is_pda>>

ProbeRelease == Probe("can_release", can_release(try_from_slice(data), now))

ProbeRefund == Probe("can_refund", can_refund(try_from_slice(data), now))

ProbeDispute == Probe("can_dispute", can_dispute(try_from_slice(data), now))

PredNext == ProbeRelease \/ ProbeRefund \/ ProbeDispute

PredSpec == PredInit /\ [][PredNext]_vars

(***************************************************************************)
(* Reading the state                                                       *)
(***************************************************************************)
Decodes == CanDecode(data)

Stored == try_from_slice(data)

\* The lifecycle state of the stored record; a buffer that does not decode has none.
StateOf(buf) == IF CanDecode(buf) THEN try_from_slice(buf).state ELSE "Undecodable"

Initialized(buf) == CanDecode(buf) /\ is_initialized(try_from_slice(buf))

FullList(c) == c.accounts # ShortList

Succeeded(op) == last = op

Rejected == last = "Rejected"

(***************************************************************************)
(* Claims                                                                  *)
(***************************************************************************)

\* C1: every change of the record's state is Created->Funded, Funded->Released,
\* Funded->Refunded, Funded->Disputed, Disputed->Released or Disputed->Refunded
\* (after the creation Uninitialized->Created); in particular no step returns
\* to Created.
LegalMoves ==
  { <<"Uninitialized", "Created">>, <<"Created", "Funded">>, <<"Funded", "Released">>,
    <<"Funded", "Refunded">>, <<"Funded", "Disputed">>, <<"Disputed", "Released">>,
    <<"Disputed", "Refunded">> }

C1_MonotonicLifecycle ==
  [][StateOf(data') # StateOf(data) => <<StateOf(data), StateOf(data')>> \in LegalMoves]_vars

\* C2: no Initialize succeeds on a record that is already initialized.
C2_NoReinitialize == [][Initialized(data) => inits' = inits]_vars

\* C3: an operation succeeds only with the signatures it requires and, for
\* Fund/Dispute, a caller equal to the stored buyer, for Release/Refund, a
\* caller equal to the stored seller.
C3_Authorization ==
  /\ \A c \in InitCalls :
       DoInitialize(data, now, c).err = "Ok" => c.seller_signer /\ c.buyer_signer
  /\ \A c \in FundCalls :
       DoFund(data, c).err = "Ok"
         => c.signer /\ Decodes /\ c.accounts[1] = Stored.buyer_pubkey
  /\ \A c \in DisputeCalls :
       DoDispute(data, now, c).err = "Ok"
         => c.signer /\ Decodes /\ c.accounts[1] = Stored.buyer_pubkey
  /\ \A c \in ReleaseCalls :
       DoRelease(data, now, c).err = "Ok"
         => c.signer /\ Decodes /\ c.accounts[1] = Stored.seller_pubkey
  /\ \A c \in RefundCalls :
       DoRefund(data, now, c).err = "Ok"
         => c.signer /\ Decodes /\ c.accounts[1] = Stored.seller_pubkey

\* An escrow has been initialized, funded and released.
C3_Witness == Succeeded("Release") /\ StateOf(data) = "Released"

\* C4: on an initialized record, in whatever state, a Fund/Dispute call by a key
\* other than the stored buyer and a Release/Refund call by a key other than the
\* stored seller fail with Unauthorized and leave the record unchanged.
C4_MismatchIsUnauthorized ==
  Initialized(data) =>
    /\ \A c \in FundCalls :
         (FullList(c) /\ c.accounts[1] # Stored.buyer_pubkey)
           => DoFund(data, c).err = "Unauthorized" /\ DoFund(data, c).data = data
    /\ \A c \in DisputeCalls :
         (FullList(c) /\ c.accounts[1] # Stored.buyer_pubkey)
           => DoDispute(data, now, c).err = "Unauthorized"
              /\ DoDispute(data, now, c).data = data
    /\ \A c \in ReleaseCalls :
         (FullList(c) /\ c.accounts[1] # Stored.seller_pubkey)
           => DoRelease(data, now, c).err = "Unauthorized"
              /\ DoRelease(data, now, c).data = data
    /\ \A c \in RefundCalls :
         (FullList(c) /\ c.accounts[1] # Stored.seller_pubkey)
           => DoRefund(data, now, c).err = "Unauthorized"
              /\ DoRefund(data, now, c).data = data

\* C5: once a Release or a Refund has succeeded (the state has reached Released
\* or Refunded), no Fund, Release, Refund or Dispute call succeeds any more.
C5_TerminalFinality ==
  outs >= 1 =>
    /\ \A c \in FundCalls : DoFund(data, c).err # "Ok"
    /\ \A c \in ReleaseCalls : DoRelease(data, now, c).err # "Ok"
    /\ \A c \in RefundCalls : DoRefund(data, now, c).err # "Ok"
    /\ \A c \in DisputeCalls : DoDispute(data, now, c).err # "Ok"

\* C6: once the record is initialized no step changes its parties, amount,
\* account references, listing id or creation time.
Immutable(e) ==
  <<e.seller_pubkey, e.buyer_pubkey, e.amount, e.seller_token_account,
    e.buyer_token_account, e.escrow_token_account, e.listing_id, e.creation_timestamp>>

C6_Immutability ==
  [][Initialized(data)
       => Initialized(data') /\ Immutable(try_from_slice(data')) = Immutable(Stored)]_vars

\* C7: at most one Release or Refund succeeds on a record.
C7_OneOutboundTransfer == outs <= 1

\* C8: a call that fails a check, or whose token transfer fails, leaves the
\* account's data exactly as it was.
CheckErrors ==
  { "NotEnoughAccountKeys", "Unauthorized", "InvalidArgument", "NotRentExempt",
    "ReleaseTimeNotReached", "InvalidEscrowState", "InvalidTokenAccount",
    "IncorrectProgramId", "Panic", "TransferFailed" }

Atomic(r) == r.err # "Ok" => (r.data = data /\ ~r.done)

C8_ErrorAtomicity ==
  /\ \A c \in InitCalls :
       DoInitialize(data, now, c).err \in CheckErrors => DoInitialize(data, now, c).data = data
  /\ \A c \in FundCalls : Atomic(DoFund(data, c))
  /\ \A c \in ReleaseCalls : Atomic(DoRelease(data, now, c))
  /\ \A c \in RefundCalls : Atomic(DoRefund(data, now, c))
  /\ \A c \in DisputeCalls : Atomic(DoDispute(data, now, c))

\* A call was rejected on a Funded record, where a Release whose transfer fails
\* is one of the rejected calls.
C8_Witness ==
  /\ Rejected
  /\ StateOf(data) = "Funded"
  /\ \E c \in ReleaseCalls : DoRelease(data, now, c).err = "TransferFailed"

\* C9: can_release and can_refund agree and hold iff the state is Funded, or
\* Disputed with the clock at or past release_timestamp; can_dispute holds iff
\* the state is Funded and the clock is before creation_timestamp + dispute_window.
C9_TransitionPredicates ==
  LET open == \/ Stored.state = "Funded"
              \/ Stored.state = "Disputed" /\ now >= Stored.release_timestamp
      disputable == /\ Stored.state = "Funded"
                    /\ now < Stored.creation_timestamp + Stored.dispute_time_window
  IN /\ probe.fn = "can_release" => probe.ret = open
     /\ probe.fn = "can_refund" => probe.ret = open
     /\ probe.fn = "can_dispute" => probe.ret = disputable
     /\ can_release(Stored, now) = can_refund(Stored, now)
     /\ Stored.state \in {"Uninitialized", "Created", "Released", "Refunded", "Closed"}
          => ~can_release(Stored, now) /\ ~can_refund(Stored, now) /\ ~can_dispute(Stored, now)

\* can_refund has answered TRUE for a Disputed record at its release time.
C9_Witness ==
  /\ probe = [fn |-> "can_refund", ret |-> TRUE]
  /\ Stored.state = "Disputed"
  /\ now = Stored.release_timestamp

\* C10 as stated: while Disputed and before release_timestamp every Release and
\* Refund call fails with InvalidEscrowState.
Frozen == StateOf(data) = "Disputed" /\ now < Stored.release_timestamp

BySeller(c) ==
  FullList(c) /\ c.signer /\ c.accounts[1] = Stored.seller_pubkey /\ c.accounts[6] = CLOCK_ID

Refused(r, c) ==
  /\ r.err # "Ok"
  /\ r.xfer = NoXfer
  /\ BySeller(c) => r.err = "InvalidEscrowState"

Admitted(r) == r.err \in {"Ok", "TransferFailed"} /\ r.xfer # NoXfer

FreezeCalls ==
  /\ Frozen =>
       /\ \A c \in ReleaseCalls : Refused(DoRelease(data, now, c), c)
       /\ \A c \in RefundCalls : Refused(DoRefund(data, now, c), c)
  /\ (StateOf(data) = "Disputed" /\ now >= Stored.release_timestamp) =>
       /\ \A c \in ReleaseCalls :
            (BySeller(c) /\ c.accounts[3] = Stored.escrow_token_account
               /\ c.accounts[4] = Stored.seller_token_account
               /\ c.accounts[5] = TOKEN_PROGRAM_ID)
              => Admitted(DoRelease(data, now, c))
       /\ \A c \in RefundCalls :
            (BySeller(c) /\ c.accounts[3] = Stored.escrow_token_account
               /\ c.accounts[4] = Stored.buyer_token_account
               /\ c.accounts[5] = TOKEN_PROGRAM_ID)
              => Admitted(DoRefund(data, now, c))

ByBuyer(c) ==
  FullList(c) /\ c.signer /\ c.accounts[1] = Stored.buyer_pubkey /\ c.accounts[3] = CLOCK_ID

InWindow ==
  Stored.state = "Funded" /\ now < Stored.creation_timestamp + Stored.dispute_time_window

C11_DisputeWindow ==
  Decodes =>
    \A c \in DisputeCalls :
      LET r == DoDispute(data, now, c)
      IN /\ r.err = "Ok" => InWindow
         /\ (ByBuyer(c) /\ ~InWindow) => (r.err = "InvalidEscrowState" /\ r.data = data)

\* The buyer's Dispute was rejected on a Funded record whose window has expired.
C11_Witness ==
  /\ Rejected
  /\ StateOf(data) = "Funded"
  /\ ~InWindow
  /\ \E c \in DisputeCalls : ByBuyer(c) /\ DoDispute(data, now, c).err = "InvalidEscrowState"

\* C12: Initialize succeeds only with release_timestamp > current_time; a call
\* that passes the earlier checks with release_timestamp <= current_time fails
\* with ReleaseTimeNotReached and writes nothing; a successful call writes a
\* Created record with creation_timestamp = current_time and a zero transfer
\* reference; every initialized record has release_timestamp > creation_timestamp.
\* The part of the account's data that a serialized record occupies.
Written(buf) == SubSeq(buf, 1, ESCROW_FIELDS)

WellFormedInit(c) ==
  /\ c.accounts # ShortList
  /\ c.seller_signer /\ c.buyer_signer /\ c.rent_exempt
  /\ c.accounts[7] = RENT_ID

C12_ReleaseTimeInvariant ==
  /\ \A c \in InitCalls :
       LET r == DoInitialize(data, now, c)
       IN /\ r.err = "Ok" =>
               /\ c.release_timestamp > now
               /\ CanDecode(Written(r.data))
               /\ try_from_slice(Written(r.data)).state = "Created"
               /\ try_from_slice(Written(r.data)).creation_timestamp = now
               /\ try_from_slice(Written(r.data)).release_timestamp = c.release_timestamp
               /\ try_from_slice(Written(r.data)).transaction_signature = 0
          /\ c.release_timestamp <= now => (r.err # "Ok" /\ r.data = data)
          /\ (WellFormedInit(c) /\ c.release_timestamp <= now)
               => r.err = "ReleaseTimeNotReached"
  /\ Initialized(data) => Stored.release_timestamp > Stored.creation_timestamp

\* An Initialize has succeeded after the clock had advanced, and a well-formed
\* Initialize with an earlier release time is now refused.
C12_Witness ==
  /\ Succeeded("Initialize")
  /\ Stored.creation_timestamp >= 1
  /\ \E c \in InitCalls :
       WellFormedInit(c) /\ DoInitialize(data, now, c).err = "ReleaseTimeNotReached"

\* C13: Fund succeeds only on a Created record; a successful Fund invokes one
\* transfer of the stored amount from the stored buyer token account to the
\* stored escrow token account under the buyer's authority and writes state
\* Funded and the supplied signature; a signed Fund on a record in another state
\* fails with InvalidEscrowState, and no Fund in another state invokes a transfer.
FundedRecord(c) ==
  [Stored EXCEPT !.state = "Funded", !.transaction_signature = c.proof]

FundEffects ==
  Decodes =>
    \A c \in FundCalls :
      LET r == DoFund(data, c)
      IN /\ r.err = "Ok" =>
              /\ Stored.state = "Created"
              /\ r.done
              /\ r.xfer = Transfer(Stored.buyer_token_account, Stored.escrow_token_account,
                                   Stored.buyer_pubkey, Stored.amount, <<>>)
              /\ r.data = Serialize(FundedRecord(c))
         /\ Stored.state # "Created" =>
              /\ r.err # "Ok" /\ r.xfer = NoXfer /\ r.data = data
              /\ (FullList(c) /\ c.signer) => r.err = "InvalidEscrowState"

C13_Fund ==
  /\ []FundEffects
  /\ [][held' > held
         => (last' = "Fund" /\ held' = held + Stored.amount /\ StateOf(data') = "Funded")]_vars

\* A Fund carrying the second signature has succeeded.
C13_Witness ==
  /\ Succeeded("Fund")
  /\ StateOf(data) = "Funded"
  /\ Stored.transaction_signature = 2
  /\ held = Stored.amount

\* C14: a successful Release invokes one transfer of the stored amount from the
\* stored escrow token account to the stored seller token account; its signer
\* seeds are "escrow", the stored seller, buyer and listing id and the byte 0,
\* its authority is the address derived from these seeds; it writes state
\* Released and the supplied signature.
DerivedAuthority == create_program_address(escrow_seed(Stored))

ReleaseEffects ==
  Decodes =>
    \A c \in ReleaseCalls :
      LET r == DoRelease(data, now, c)
      IN r.err = "Ok" =>
           /\ r.done
           /\ r.xfer = Transfer(Stored.escrow_token_account, Stored.seller_token_account,
                                DerivedAuthority, Stored.amount,
                                <<"escrow", Stored.seller_pubkey, Stored.buyer_pubkey,
                                  Stored.listing_id, 0>>)
           /\ r.data = Serialize([Stored EXCEPT !.state = "Released",
                                                !.transaction_signature = c.proof])

C14_Release ==
  /\ []ReleaseEffects
  /\ [][StateOf(data') = "Released" /\ StateOf(data) # "Released"
         => (last' = "Release" /\ outs' = outs + 1 /\ held' = held - Stored.amount)]_vars

\* C15: a Refund succeeds only when signed by the stored seller with can_refund
\* true; it then invokes one transfer of the stored amount from the stored
\* escrow token account to the stored buyer token account under the derived
\* authority and writes state Refunded; a Refund or Release called by any other
\* key fails and invokes no transfer.
RefundEffects ==
  Decodes =>
    /\ \A c \in RefundCalls :
         LET r == DoRefund(data, now, c)
         IN /\ r.err = "Ok" =>
                 /\ c.signer /\ c.accounts[1] = Stored.seller_pubkey
                 /\ can_refund(Stored, now)
                 /\ r.done
                 /\ r.xfer = Transfer(Stored.escrow_token_account, Stored.buyer_token_account,
                                      DerivedAuthority, Stored.amount, escrow_seed(Stored))
                 /\ r.data = Serialize([Stored EXCEPT !.state = "Refunded",
                                                      !.transaction_signature = c.proof])
            /\ (FullList(c) /\ c.accounts[1] # Stored.seller_pubkey)
                 => (r.err # "Ok" /\ r.xfer = NoXfer /\ r.data = data)
    /\ \A c \in ReleaseCalls :
         (FullList(c) /\ c.accounts[1] # Stored.seller_pubkey)
           => (DoRelease(data, now, c).err # "Ok" /\ DoRelease(data, now, c).xfer = NoXfer)

C15_RefundSellerGated ==
  /\ []RefundEffects
  /\ [][StateOf(data') = "Refunded" /\ StateOf(data) # "Refunded"
         => (last' = "Refund" /\ outs' = outs + 1 /\ held' = held - Stored.amount)]_vars

\* C16: no Release succeeds while the clock is before the stored
\* release_timestamp, whatever the state of the record.
C16_ReleaseTimeGate ==
  (Decodes /\ now < Stored.release_timestamp) =>
    \A c \in ReleaseCalls : DoRelease(data, now, c).err # "Ok"

\* C17: on storage that was never initialized (all zero), a signed Fund,
\* Release, Refund or Dispute with a full account list fails with
\* InvalidEscrowState or a decoding error, invokes no transfer and leaves the
\* storage unchanged, whoever calls.
NeverInitialized == data = Zeroed(Len(data))

StateOrDecodeError(r) ==
  /\ r.err \in {"InvalidEscrowState", "BorshIoError"}
  /\ r.xfer = NoXfer
  /\ r.data = data

C17_UninitializedOps ==
  NeverInitialized =>
    /\ \A c \in FundCalls : (FullList(c) /\ c.signer) => StateOrDecodeError(DoFund(data, c))
    /\ \A c \in ReleaseCalls :
         (FullList(c) /\ c.signer) => StateOrDecodeError(DoRelease(data, now, c))
    /\ \A c \in RefundCalls :
         (FullList(c) /\ c.signer) => StateOrDecodeError(DoRefund(data, now, c))
    /\ \A c \in DisputeCalls :
         (FullList(c) /\ c.signer) => StateOrDecodeError(DoDispute(data, now, c))

\* C18: Fund, Release and Refund succeed only with the token accounts stored in
\* the record; a call by the right signer on a record in a legal state with a
\* token account that differs from the stored one fails with
\* InvalidTokenAccount, invokes no transfer and leaves the record unchanged.
BindingError(r) == r.err = "InvalidTokenAccount" /\ r.xfer = NoXfer /\ r.data = data

FundBound(c) ==
  c.accounts[3] = Stored.buyer_token_account /\ c.accounts[4] = Stored.escrow_token_account

ReleaseBound(c) ==
  c.accounts[3] = Stored.escrow_token_account /\ c.accounts[4] = Stored.seller_token_account

RefundBound(c) ==
  c.accounts[3] = Stored.escrow_token_account /\ c.accounts[4] = Stored.buyer_token_account

FundByBuyer(c) == FullList(c) /\ c.signer /\ c.accounts[1] = Stored.buyer_pubkey

C18_AccountBinding ==
  Decodes =>
    /\ \A c \in FundCalls :
         /\ DoFund(data, c).err = "Ok" => FundBound(c)
         /\ (FundByBuyer(c) /\ Stored.state = "Created" /\ ~FundBound(c))
              => BindingError(DoFund(data, c))
    /\ \A c \in ReleaseCalls :
         /\ DoRelease(data, now, c).err = "Ok" => ReleaseBound(c)
         /\ (BySeller(c) /\ can_release(Stored, now) /\ ~ReleaseBound(c))
              => BindingError(DoRelease(data, now, c))
    /\ \A c \in RefundCalls :
         /\ DoRefund(data, now, c).err = "Ok" => RefundBound(c)
         /\ (BySeller(c) /\ can_refund(Stored, now) /\ ~RefundBound(c))
              => BindingError(DoRefund(data, now, c))

\* A call was rejected on a Funded record, where a Refund by the seller to a
\* token account other than the stored one is among the rejected calls.
C18_Witness ==
  /\ Rejected
  /\ StateOf(data) = "Funded"
  /\ \E c \in RefundCalls :
       BySeller(c) /\ ~RefundBound(c) /\ DoRefund(data, now, c).err = "InvalidTokenAccount"

\* C19: in Fund, Release and Refund the transfer is invoked only after the
\* signer, identity, state/time and account checks have passed, and the record
\* is written only after the transfer has succeeded: a call that fails a check
\* invokes no transfer, and the data changes only together with a transfer that
\* succeeded.
TransferErrors == {"Ok", "TransferFailed"}

Ordered(r) ==
  /\ r.xfer # NoXfer <=> r.err \in TransferErrors
  /\ r.done <=> r.err = "Ok"
  /\ r.data # data => r.done

C19_Ordering ==
  /\ \A c \in FundCalls :
       /\ Ordered(DoFund(data, c))
       /\ DoFund(data, c).xfer # NoXfer
            => (Decodes /\ FundByBuyer(c) /\ Stored.state = "Created" /\ FundBound(c))
  /\ \A c \in ReleaseCalls :
       /\ Ordered(DoRelease(data, now, c))
       /\ DoRelease(data, now, c).xfer # NoXfer
            => (Decodes /\ BySeller(c) /\ can_release(Stored, now) /\ ReleaseBound(c))
  /\ \A c \in RefundCalls :
       /\ Ordered(DoRefund(data, now, c))
       /\ DoRefund(data, now, c).xfer # NoXfer
            => (Decodes /\ BySeller(c) /\ can_refund(Stored, now) /\ RefundBound(c))

\* A call was rejected on a Created record, where a Fund whose transfer the
\* token program rejects is among the rejected calls.
C19_Witness ==
  /\ Rejected
  /\ StateOf(data) = "Created"
  /\ \E c \in FundCalls :
       DoFund(data, c).err = "TransferFailed" /\ DoFund(data, c).xfer # NoXfer

\* C20: a successful Dispute invokes no transfer and changes only the state
\* field, from Funded to Disputed; the signature recorded by Fund stays and the
\* reason appears in no field of the record.
DisputeEffects ==
  Decodes =>
    \A c \in DisputeCalls :
      LET r == DoDispute(data, now, c)
      IN r.err = "Ok" =>
           /\ Stored.state = "Funded"
           /\ r.xfer = NoXfer /\ ~r.done
           /\ r.data = Serialize([Stored EXCEPT !.state = "Disputed"])
           /\ \A i \in 1 .. Len(r.data) : r.data[i] # c.reason

C20_DisputeFrame ==
  /\ []DisputeEffects
  /\ [][StateOf(data') = "Disputed" /\ StateOf(data) # "Disputed"
         => /\ last' = "Dispute"
            /\ data' = Serialize([Stored EXCEPT !.state = "Disputed"])
            /\ held' = held /\ outs' = outs]_vars

\* A Dispute has succeeded on a record funded with the second signature.
C20_Witness ==
  /\ Succeeded("Dispute")
  /\ StateOf(data) = "Disputed"
  /\ Stored.transaction_signature = 2
  /\ held = Stored.amount

\* C21: the state of the record is never Closed, and once an Initialize has
\* succeeded it is never Uninitialized again.
C21_ClosedUnreachable ==
  /\ StateOf(data) # "Closed"
  /\ inits >= 1 => StateOf(data) # "Uninitialized"

\* A record has been re-initialized and then funded and refunded.
C21_Witness ==
  /\ inits = MaxInits
  /\ Succeeded("Refund")
  /\ StateOf(data) = "Refunded"

\* C22: for every initialized record and clock value the addition
\* creation_timestamp + dispute_window does not overflow, and a Dispute signed
\* by the stored buyer never aborts and succeeds exactly when the record is
\* Funded and current_time < creation_timestamp + dispute_window.
C22_DisputeExact ==
  Initialized(data) =>
    /\ ~DisputeOverflows(Stored)
    /\ \A c \in DisputeCalls :
         ByBuyer(c) =>
           /\ DoDispute(data, now, c).err \in {"Ok", "InvalidEscrowState"}
           /\ DoDispute(data, now, c).err = "Ok" <=> InWindow

\* C23: the net amount this program has moved into the holding account is the
\* record's amount while the record is Funded or Disputed and 0 while it is
\* Created, Released or Refunded.
Accounted ==
  /\ StateOf(data) \in {"Funded", "Disputed"} => held = Stored.amount
  /\ StateOf(data) \in {"Created", "Released", "Refunded"} => held = 0

C23_HeldFunds == Initialized(data) => Accounted

\* C24: a Funded or Disputed record whose transfers can succeed (the escrow
\* account signs, or is the address derived from the record's seeds) eventually
\* becomes Released or Refunded when the clock advances and the seller keeps
\* calling; while it is Disputed a Release or Refund can succeed exactly from
\* release_timestamp on.
Settleable ==
  ~escrow_is_pda \/ create_program_address(escrow_seed(Stored)) = ESCROW_ACCOUNT

Holding == StateOf(data) \in {"Funded", "Disputed"} /\ Settleable

Terminal == StateOf(data) \in {"Released", "Refunded"}

CanSettleNow ==
  \/ \E c \in ReleaseCalls : DoRelease(data, now, c).err = "Ok"
  \/ \E c \in RefundCalls : DoRefund(data, now, c).err = "Ok"

ResolutionGate ==
  (StateOf(data) = "Disputed" /\ Settleable)
    => (CanSettleNow <=> now >= Stored.release_timestamp)

C24_NoDeadEnd == []ResolutionGate /\ (Holding ~> Terminal)

====
